---- MODULE Spec2Model ----
(***************************************************************************)
(* Model of scripts/check_performance_regression.py: the parser of the     *)
(* benchmark report, the validator of the extracted metrics, and main.     *)
(*                                                                         *)
(* Numbers are exact rationals [num, den] (the script's floats without     *)
(* rounding).  A report is a sequence of tokens; each token is a piece of  *)
(* text one of the three regular expressions can distinguish.  The         *)
(* microsecond unit of the source is written "us" here.                    *)
(***************************************************************************)
EXTENDS Integers, Sequences, FiniteSets, TLC

VARIABLES file, args, pc, metrics, all_passed, out, exit_code, trace

vars == <<file, args, pc, metrics, all_passed, out, exit_code, trace>>

\* ------------------------------------------------------------------ bounds
MaxLen == 3
MaxHalf == 3

\* --------------------------------------------------------------- rationals
Rat(n, d) == [num |-> n, den |-> d]
RatEq(a, b) == a.num * b.den = b.num * a.den
RatLT(a, b) == a.num * b.den < b.num * a.den
RatGT(a, b) == RatLT(b, a)
RatLE(a, b) == ~RatLT(b, a)
RatDiv(a, k) == Rat(a.num, a.den * k)
RatMul(a, k) == Rat(a.num * k, a.den)

\* float(text) of a text matched by \d+(?:\.\d+)? ; the text is the pair
\* <<whole part, first decimal digit>>
Float(txt) == Rat(txt[1] * 10 + txt[2], 10)

NsPerMs == 1000000
UsPerMs == 1000
MbPerGb == 1024
Percent == 100

\* ------------------------------------------------------------------ inputs
\* number texts the report may hold: "0", "2.5"; "92.5", "150"; "0", "2"
LatencyTexts == {<<0, 0>>, <<2, 5>>}
PercentTexts == {<<92, 5>>, <<150, 0>>}
MemoryTexts == {<<0, 0>>, <<2, 0>>}

\* str.lower() on the unit spellings of the model
Lower(u) ==
  CASE u = "NS" -> "ns"
    [] u = "GB" -> "gb"
    [] u = "MB" -> "mb"
    [] u = "KB" -> "kb"
    [] OTHER -> u

P99Spellings == {"ns", "NS", "us", "ms", "s"}
MemSpellings == {"MB", "GB", "gb", "KB"}

\* the alternations (ns|us|ms) and (MB|GB) under re.IGNORECASE
P99UnitAccepted(u) == Lower(u) \in {"ns", "us", "ms"}
MemUnitAccepted(u) == Lower(u) \in {"mb", "gb"}

Tokens ==
  {[t |-> "input_latency"], [t |-> "cache"], [t |-> "newline"], [t |-> "text"]}
  \cup {[t |-> "percentile", num |-> n, unit |-> u] : n \in LatencyTexts, u \in P99Spellings}
  \cup {[t |-> "hit_rate", num |-> n] : n \in PercentTexts}
  \cup {[t |-> "memory_usage", num |-> n, unit |-> u] : n \in MemoryTexts, u \in MemSpellings}

Contents == UNION {[1..n -> Tokens] : n \in 0..MaxLen}

Keys == {"p99_latency_ms", "cache_hit_rate", "memory_usage_mb"}
EmptyMap == [k \in {} |-> Rat(0, 1)]
Put(m, k, v) == [x \in (DOMAIN m) \cup {k} |-> IF x = k THEN v ELSE m[x]]

\* a path that exists but whose read_text() raises
RaisingKinds == {"directory", "unreadable", "undecodable"}

Files ==
  {[kind |-> "text", content |-> c] : c \in Contents}
  \cup {[kind |-> k, content |-> <<>>] : k \in RaisingKinds \cup {"absent"}}

DefaultTargets ==
  [max_p99_ms |-> Rat(25, 1), min_hit_rate |-> Rat(90, 100), max_memory_mb |-> Rat(50, 1)]
OtherTargets ==
  [max_p99_ms |-> Rat(0, 1), min_hit_rate |-> Rat(2, 1), max_memory_mb |-> Rat(200, 1)]
TargetSet == {DefaultTargets, OtherTargets}

\* ------------------------------------------------------------------ parser
Min(S) == CHOOSE x \in S : \A y \in S : x <= y

\* re.search of  head .*? tail : the leftmost start at which head matches and
\* from which a tail is reached through characters other than a line break
\* ('.' does not match "\n": no re.DOTALL), then the nearest such tail.
\* Returns the index of the tail token, 0 when there is no match.
PercentileTail(tok) == tok.t = "percentile" /\ P99UnitAccepted(tok.unit)
HitRateTail(tok) == tok.t = "hit_rate"
MemoryTail(tok) == tok.t = "memory_usage" /\ MemUnitAccepted(tok.unit)

TailOK(tail, tok) ==
  CASE tail = "percentile" -> PercentileTail(tok)
    [] tail = "hit_rate" -> HitRateTail(tok)
    [] tail = "memory_usage" -> MemoryTail(tok)

TailsFrom(content, i, tail) ==
  {j \in (i + 1)..Len(content) :
     /\ TailOK(tail, content[j])
     /\ \A k \in (i + 1)..(j - 1) : content[k].t # "newline"}

LazySearch(content, head, tail) ==
  LET starts == {i \in 1..Len(content) :
                   /\ content[i].t = head
                   /\ TailsFrom(content, i, tail) # {}}
  IN IF starts = {} THEN 0 ELSE Min(TailsFrom(content, Min(starts), tail))

p99_match(content) == LazySearch(content, "input_latency", "percentile")
hit_rate_match(content) == LazySearch(content, "cache", "hit_rate")
memory_match(content) ==
  LET hits == {j \in 1..Len(content) : MemoryTail(content[j])}
  IN IF hits = {} THEN 0 ELSE Min(hits)

\* lines 24-33: the unit is compared as written
ConvertLatency(tok) ==
  LET value == Float(tok.num)
  IN IF tok.unit = "ns" THEN RatDiv(value, NsPerMs)
     ELSE IF tok.unit = "us" THEN RatDiv(value, UsPerMs)
     ELSE value

\* the percentage is stored as it is written
ConvertHitRate_NoDivide(tok) == Float(tok.num)

ConvertHitRate(tok) == RatDiv(Float(tok.num), Percent)

\* lines 43-49: the unit is compared as written
ConvertMemory(tok) ==
  LET value == Float(tok.num)
  IN IF tok.unit = "GB" THEN RatMul(value, MbPerGb) ELSE value

ParseContent(content) ==
  LET m0 == EmptyMap
      p  == p99_match(content)
      m1 == IF p # 0 THEN Put(m0, "p99_latency_ms", ConvertLatency(content[p])) ELSE m0
      h  == hit_rate_match(content)
      m2 == IF h # 0 THEN Put(m1, "cache_hit_rate", ConvertHitRate(content[h])) ELSE m1
      g  == memory_match(content)
      m3 == IF g # 0 THEN Put(m2, "memory_usage_mb", ConvertMemory(content[g])) ELSE m2
  IN m3

\* --------------------------------------------------------------- validator
\* line 55
ValidateEnter ==
  /\ pc = "v_entry"
  /\ all_passed' = TRUE
  /\ pc' = "v_p99"
  /\ UNCHANGED <<file, args, metrics, out, exit_code, trace>>

\* a latency equal to the threshold fails
ValidateP99_EqualFails ==
  /\ pc = "v_p99"
  /\ pc' = "v_hit"
  /\ IF "p99_latency_ms" \in DOMAIN metrics
        THEN IF ~RatLT(metrics["p99_latency_ms"], args.max_p99_ms)
               THEN /\ out' = Append(out, <<"FAIL", "p99_latency_ms">>)
                    /\ all_passed' = FALSE
               ELSE /\ out' = Append(out, <<"PASS", "p99_latency_ms">>)
                    /\ UNCHANGED all_passed
        ELSE UNCHANGED <<out, all_passed>>
  /\ UNCHANGED <<file, args, metrics, exit_code, trace>>

\* lines 57-64
ValidateP99 ==
  /\ pc = "v_p99"
  /\ pc' = "v_hit"
  /\ IF "p99_latency_ms" \in DOMAIN metrics
        THEN IF RatGT(metrics["p99_latency_ms"], args.max_p99_ms)
               THEN /\ out' = Append(out, <<"FAIL", "p99_latency_ms">>)
                    /\ all_passed' = FALSE
               ELSE /\ out' = Append(out, <<"PASS", "p99_latency_ms">>)
                    /\ UNCHANGED all_passed
        ELSE UNCHANGED <<out, all_passed>>
  /\ UNCHANGED <<file, args, metrics, exit_code, trace>>

\* lines 66-73
ValidateHitRate ==
  /\ pc = "v_hit"
  /\ pc' = "v_mem"
  /\ IF "cache_hit_rate" \in DOMAIN metrics
        THEN IF RatLT(metrics["cache_hit_rate"], args.min_hit_rate)
               THEN /\ out' = Append(out, <<"FAIL", "cache_hit_rate">>)
                    /\ all_passed' = FALSE
               ELSE /\ out' = Append(out, <<"PASS", "cache_hit_rate">>)
                    /\ UNCHANGED all_passed
        ELSE UNCHANGED <<out, all_passed>>
  /\ UNCHANGED <<file, args, metrics, exit_code, trace>>

\* the memory check is skipped once an earlier metric has failed
ValidateMemory_ShortCircuit ==
  /\ pc = "v_mem"
  /\ pc' = "v_return"
  /\ IF all_passed /\ "memory_usage_mb" \in DOMAIN metrics
        THEN IF RatGT(metrics["memory_usage_mb"], args.max_memory_mb)
               THEN /\ out' = Append(out, <<"FAIL", "memory_usage_mb">>)
                    /\ all_passed' = FALSE
               ELSE /\ out' = Append(out, <<"PASS", "memory_usage_mb">>)
                    /\ UNCHANGED all_passed
        ELSE UNCHANGED <<out, all_passed>>
  /\ UNCHANGED <<file, args, metrics, exit_code, trace>>

\* lines 75-84
ValidateMemory ==
  /\ pc = "v_mem"
  /\ pc' = "v_return"
  /\ IF "memory_usage_mb" \in DOMAIN metrics
        THEN IF RatGT(metrics["memory_usage_mb"], args.max_memory_mb)
               THEN /\ out' = Append(out, <<"FAIL", "memory_usage_mb">>)
                    /\ all_passed' = FALSE
               ELSE /\ out' = Append(out, <<"PASS", "memory_usage_mb">>)
                    /\ UNCHANGED all_passed
        ELSE UNCHANGED <<out, all_passed>>
  /\ UNCHANGED <<file, args, metrics, exit_code, trace>>

\* -------------------------------------------------------------------- main
NoExit == -1

\* lines 97-101: the flags are parsed, the banner and the targets are printed
Start ==
  /\ pc = "start"
  /\ out' = Append(Append(out, <<"BANNER">>), <<"TARGETS">>)
  /\ trace' = Append(trace, "Start")
  /\ pc' = "parse"
  /\ UNCHANGED <<file, args, metrics, all_passed, exit_code>>

\* line 104 with lines 13-51, when parse_benchmark_results returns
Parse ==
  /\ pc = "parse"
  /\ file.kind \in {"absent", "text"}
  /\ metrics' = IF file.kind = "absent" THEN EmptyMap ELSE ParseContent(file.content)
  /\ trace' = Append(trace, "Parse")
  /\ pc' = "parsed"
  /\ UNCHANGED <<file, args, all_passed, out, exit_code>>

\* line 18 raising (IsADirectoryError, PermissionError, UnicodeDecodeError):
\* nothing catches it, the interpreter prints the traceback and exits with 1
ParseRaise ==
  /\ pc = "parse"
  /\ file.kind \in RaisingKinds
  /\ trace' = Append(trace, "Parse")
  /\ out' = Append(out, <<"TRACEBACK">>)
  /\ exit_code' = 1
  /\ pc' = "crashed"
  /\ UNCHANGED <<file, args, metrics, all_passed>>

\* an empty mapping is reported as a failure
Skip_ExitsOne ==
  /\ pc = "parsed"
  /\ metrics = EmptyMap
  /\ out' = Append(Append(out, <<"WARNING">>), <<"SKIPPED">>)
  /\ trace' = Append(trace, "Skip")
  /\ exit_code' = 1
  /\ pc' = "done"
  /\ UNCHANGED <<file, args, metrics, all_passed>>

\* lines 106-109
Skip ==
  /\ pc = "parsed"
  /\ metrics = EmptyMap
  /\ out' = Append(Append(out, <<"WARNING">>), <<"SKIPPED">>)
  /\ trace' = Append(trace, "Skip")
  /\ exit_code' = 0
  /\ pc' = "done"
  /\ UNCHANGED <<file, args, metrics, all_passed>>

\* lines 106 and 112: the call of validate_performance_targets
Validate ==
  /\ pc = "parsed"
  /\ metrics # EmptyMap
  /\ trace' = Append(trace, "Validate")
  /\ pc' = "v_entry"
  /\ UNCHANGED <<file, args, metrics, all_passed, out, exit_code>>

\* lines 112-121
Summary ==
  /\ pc = "v_return"
  /\ IF all_passed
        THEN /\ out' = Append(out, <<"ALL_MET">>)
             /\ exit_code' = 0
        ELSE /\ out' = Append(Append(out, <<"REGRESSION">>), <<"REVIEW">>)
             /\ exit_code' = 1
  /\ pc' = "done"
  /\ UNCHANGED <<file, args, metrics, all_passed, trace>>

Init ==
  /\ file \in Files
  /\ args \in TargetSet
  /\ pc = "start"
  /\ metrics = EmptyMap
  /\ all_passed = FALSE
  /\ out = <<>>
  /\ exit_code = NoExit
  /\ trace = <<>>

Next ==
  \/ Start
  \/ Parse
  \/ ParseRaise
  \/ Skip
  \/ Validate
  \/ ValidateEnter
  \/ ValidateP99
  \/ ValidateHitRate
  \/ ValidateMemory
  \/ Summary

Spec == Init /\ [][Next]_vars

\* ------------------------------------------- the validator on its own inputs
MetricValues == {Rat(n, 2) : n \in 0..MaxHalf}
Mappings == UNION {[D -> MetricValues] : D \in SUBSET Keys}
Thresholds == {Rat(1, 2), Rat(1, 1)}
TargetRecords ==
  [max_p99_ms : Thresholds, min_hit_rate : Thresholds, max_memory_mb : Thresholds]

InitValidate ==
  /\ file = [kind |-> "absent", content |-> <<>>]
  /\ args \in TargetRecords
  /\ metrics \in Mappings
  /\ pc = "v_entry"
  /\ all_passed = FALSE
  /\ out = <<>>
  /\ exit_code = NoExit
  /\ trace = <<>>

NextValidate ==
  \/ ValidateEnter
  \/ ValidateP99
  \/ ValidateHitRate
  \/ ValidateMemory

SpecValidate == InitValidate /\ [][NextValidate]_vars

TypeOK ==
  /\ pc \in {"start", "parse", "parsed", "crashed", "done",
              "v_entry", "v_p99", "v_hit", "v_mem", "v_return"}
  /\ DOMAIN metrics \subseteq Keys
  /\ all_passed \in BOOLEAN
  /\ exit_code \in {NoExit, 0, 1}

\* ================================================================= claims
Terminated == pc \in {"done", "crashed"}
AfterParse == pc \notin {"start", "parse"}
Range(q) == {q[i] : i \in 1..Len(q)}
Order == <<"p99_latency_ms", "cache_hit_rate", "memory_usage_mb">>

\* the rule of the metric k, written on the numerators and denominators
Meets(k) ==
  LET v == metrics[k]
  IN CASE k = "p99_latency_ms" ->
            v.num * args.max_p99_ms.den <= args.max_p99_ms.num * v.den
       [] k = "cache_hit_rate" ->
            v.num * args.min_hit_rate.den >= args.min_hit_rate.num * v.den
       [] k = "memory_usage_mb" ->
            v.num * args.max_memory_mb.den <= args.max_memory_mb.num * v.den

\* C1: when main has ended, the exit code is 0 iff no metric was extracted or
\* every extracted metric meets its threshold, and 1 iff some extracted metric
\* violates its threshold.
C1_ExitCodeIffThresholds ==
  Terminated =>
    LET violated == \E k \in DOMAIN metrics : ~Meets(k)
    IN /\ (exit_code = 0) <=> ~violated
       /\ (exit_code = 1) <=> violated

\* C2: validate_performance_targets returns true iff every metric present
\* satisfies its rule (<= max, >= min, <= max); equality passes, absent metrics
\* are skipped, the empty mapping yields true.
C2_ValidateIffAllMeet ==
  pc = "v_return" => (all_passed <=> \A k \in DOMAIN metrics : Meets(k))

C2_Witness ==
  /\ pc = "v_return"
  /\ all_passed
  /\ "p99_latency_ms" \in DOMAIN metrics
  /\ metrics["p99_latency_ms"] = args.max_p99_ms
  /\ "cache_hit_rate" \notin DOMAIN metrics

\* C3: for a results file that does not exist or is empty the parser returns
\* the empty mapping without raising, the driver prints the warning, never
\* calls the validator and exits 0, whatever the thresholds.
MissingOrEmpty ==
  file.kind = "absent" \/ (file.kind = "text" /\ file.content = <<>>)

C3_MissingOrEmptySkips ==
  MissingOrEmpty =>
    /\ pc # "crashed"
    /\ AfterParse => metrics = EmptyMap
    /\ "Validate" \notin Range(trace)
    /\ pc \notin {"v_entry", "v_p99", "v_hit", "v_mem", "v_return"}
    /\ pc = "done" => (exit_code = 0 /\ <<"WARNING">> \in Range(out))

C3_Witness ==
  /\ pc = "done"
  /\ file.kind = "absent"
  /\ args = OtherTargets
  /\ exit_code = 0

\* C4: whenever the P99 pattern matches, p99_latency_ms is the matched number
\* divided by 1,000,000 for the unit ns, by 1,000 for us, unchanged for ms, the
\* unit being read without regard to letter case.
C4_LatencyNormalized ==
  (file.kind = "text" /\ AfterParse /\ p99_match(file.content) # 0) =>
    LET tok == file.content[p99_match(file.content)]
        u == Lower(tok.unit)
        expected == CASE u = "ns" -> RatDiv(Float(tok.num), NsPerMs)
                      [] u = "us" -> RatDiv(Float(tok.num), UsPerMs)
                      [] u = "ms" -> Float(tok.num)
    IN /\ "p99_latency_ms" \in DOMAIN metrics
       /\ RatEq(metrics["p99_latency_ms"], expected)

\* C5: whenever the memory pattern matches, memory_usage_mb is the matched
\* number times 1024 for the unit GB and the number itself for MB, the unit
\* being read without regard to letter case.
C5_MemoryNormalized ==
  (file.kind = "text" /\ AfterParse /\ memory_match(file.content) # 0) =>
    LET tok == file.content[memory_match(file.content)]
        u == Lower(tok.unit)
        expected == CASE u = "gb" -> RatMul(Float(tok.num), MbPerGb)
                      [] u = "mb" -> Float(tok.num)
    IN /\ "memory_usage_mb" \in DOMAIN metrics
       /\ RatEq(metrics["memory_usage_mb"], expected)

\* C6 as claimed: a parsed cache_hit_rate is the matched percentage divided by
\* 100 and lies in [0,1].
PercentOf(tok) == Rat(tok.num[1] * 10 + tok.num[2], 10)

C6_HitRateInUnitInterval ==
  (AfterParse /\ "cache_hit_rate" \in DOMAIN metrics) =>
    LET v == metrics["cache_hit_rate"]
        tok == file.content[hit_rate_match(file.content)]
    IN /\ v.num * (PercentOf(tok).den * 100) = PercentOf(tok).num * v.den
       /\ 0 <= v.num /\ v.num <= v.den

\* C6 as amended: a parsed cache_hit_rate is the matched percentage divided by
\* 100; it is never negative, and it lies in [0,1] whenever the percentage
\* figure is at most 100 (a larger figure is not clamped).
C6_HitRateIsPercentOver100 ==
  (AfterParse /\ "cache_hit_rate" \in DOMAIN metrics) =>
    /\ file.kind = "text"
    /\ hit_rate_match(file.content) # 0
    /\ LET v == metrics["cache_hit_rate"]
           tok == file.content[hit_rate_match(file.content)]
       IN /\ v.num * (PercentOf(tok).den * 100) = PercentOf(tok).num * v.den
          /\ 0 <= v.num
          /\ (PercentOf(tok).num <= 100 * PercentOf(tok).den) => (v.num <= v.den)

C6_Witness ==
  /\ AfterParse
  /\ "cache_hit_rate" \in DOMAIN metrics
  /\ metrics["cache_hit_rate"].num > metrics["cache_hit_rate"].den

\* C7: the validator prints exactly one PASS/FAIL line for each metric present
\* and none for an absent one, in the order latency, hit rate, memory; a metric
\* is evaluated whatever the earlier ones did, and once a failure is recorded
\* the aggregate stays false.
Evaluated ==
  CASE pc \in {"v_entry", "v_p99"} -> 0
    [] pc = "v_hit" -> 1
    [] pc = "v_mem" -> 2
    [] OTHER -> 3

IsPresent(k) == k \in DOMAIN metrics

C7_LinesSoFar ==
  LET due == SelectSeq(SubSeq(Order, 1, Evaluated), IsPresent)
  IN /\ Len(out) = Len(due)
     /\ \A i \in 1..Len(due) :
          out[i] = <<IF Meets(due[i]) THEN "PASS" ELSE "FAIL", due[i]>>

C7_OneLinePerPresentMetric ==
  /\ [](C7_LinesSoFar)
  /\ [][(pc # "v_entry" /\ ~all_passed) => ~all_passed']_vars

C7_Witness ==
  /\ pc = "v_return"
  /\ "cache_hit_rate" \notin DOMAIN metrics
  /\ out = <<(<<"FAIL", "p99_latency_ms">>), (<<"PASS", "memory_usage_mb">>)>>
  /\ ~all_passed

\* C8: if "input_latency" is followed, after any text (line breaks included),
\* by "99th percentile: <number> <unit>", p99_latency_ms is present and holds
\* the value of the first such occurrence of the file.
Occurrences(content) ==
  {j \in 1..Len(content) :
     /\ PercentileTail(content[j])
     /\ \E i \in 1..(j - 1) : content[i].t = "input_latency"}

C8_FirstOccurrenceAcrossLines ==
  (file.kind = "text" /\ AfterParse /\ Occurrences(file.content) # {}) =>
    /\ "p99_latency_ms" \in DOMAIN metrics
    /\ metrics["p99_latency_ms"]
         = ConvertLatency(file.content[Min(Occurrences(file.content))])

\* C9: a run of main is Start, Parse, then exactly one of Skip (empty mapping)
\* or Validate (non-empty mapping), then the exit with code 0 or 1; Skip exits
\* with 0, Parse and Validate run at most once, and the targets are printed
\* before the file is parsed.
Count(q, x) == Cardinality({i \in 1..Len(q) : q[i] = x})

C9_LinearPath ==
  /\ Terminated =>
       /\ trace \in {<<"Start", "Parse", "Skip">>, <<"Start", "Parse", "Validate">>}
       /\ exit_code \in {0, 1}
  /\ "Validate" \in Range(trace) => metrics # EmptyMap
  /\ ("Skip" \in Range(trace)) => (pc = "done" /\ exit_code = 0)
  /\ Count(trace, "Parse") <= 1
  /\ Count(trace, "Validate") <= 1
  /\ "Parse" \in Range(trace) => <<"TARGETS">> \in Range(out)

\* C10: when the results path exists but its read does not complete, the
\* parser returns the empty mapping without raising and the driver prints the
\* warning and exits 0, as for a missing file.
C10_FailedReadIsAbsent ==
  (file.kind \in RaisingKinds /\ AfterParse) =>
    /\ pc # "crashed"
    /\ metrics = EmptyMap
    /\ pc = "done" => (exit_code = 0 /\ <<"WARNING">> \in Range(out))

====
